---- MODULE Spec2Model ----
(***************************************************************************)
(* AgentGo MCP service (agentgo_mcp_service.py): the login challenge /     *)
(* verification / token-session state machine, the social-binding flow and *)
(* the token-gated queries, as a state machine over the module-level       *)
(* dictionaries challenge_storage and auth_tokens.                         *)
(*                                                                         *)
(* Every tool is a coroutine on one asyncio loop: the code between two     *)
(* awaits runs atomically.  A tool that awaits an upstream HTTP call is    *)
(* two actions: the part up to the await (which leaves the coroutine's     *)
(* frame in `pending`) and the part after it (`..._resume`, which takes    *)
(* the frame and an upstream response).                                    *)
(***************************************************************************)
EXTENDS Integers, Sequences, FiniteSets, Bags, TLC

\* ------------------------------------------------------------------ bounds
\* The wall clock runs over the seconds 0..MaxTime.
MaxTime == 1
\* At most MaxInflight coroutines are suspended at an upstream call.
MaxInflight == 2
\* A behaviour is followed for MaxSteps steps (handler steps and clock ticks).
MaxSteps == 5

\* ------------------------------------------------------- program constants
\* random.randint(1000000, 9999999) for num1 and num2, randint(100, 999) for num3
Num12Min == 1000000
Num12Max == 9999999
Num3Min == 100
Num3Max == 999

\* ------------------------------------------------------------------ inputs
Addresses == {"0xA", "0xB"}
\* an address argument that is omitted (None) or empty: falsy in Python
NoAddress == ""
AddressArgs == Addresses \cup {NoAddress}
Signatures == {"0xsig"}
Tokens == {"tok1", "tok2"}
\* the token of an upstream answer that carries none (missing or empty)
NoToken == ""
BubbleTypeArgs == {"price", "sigma_score", "mindshare", "volume"}
ScreenNames == {"alice"}
BubbleTypes == {"price", "sigma_score", "mindshare"}
Slugs == {"agent"}
TweetIds == {"tweet1"}
\* the operands random.randint draws, sampled from their ranges
Num1Samples == {Num12Max}
Num2Samples == {Num12Max}
Num3Samples == {Num3Max}
\* the 7-digit code random.randint draws for a social-binding message
CodeSamples == {Num12Min}
\* number=None
NoNumber == <<>>

\* ------------------------------------------------------------ result texts
NoChallengeMsg == "No challenge found for this address. Please call get_trustgo_login_message first"
MismatchMsg == "Message does not match the challenge. Please use the message from get_trustgo_login_message"
MissingNumberMsg == "Please provide the calculated number from the challenge"
IncorrectMsg == "Incorrect calculation. Expected: {expected_answer}, Got: {number}"
NoTokenMsg == "Login failed: No token The signature is incorrect"
LoginOkMsg == "TrustGo login successful"
UpstreamRejectedMsg == "TrustGo login failed: {upstream message}"
LoginExceptionMsg == "TrustGo login failed: {exception}"
\* challenge["message"] on a record without the key: str(KeyError('message'))
KeyErrorMsg == "TrustGo login failed: 'message'"
\* not a result text: every local check of a handler passed
PassedMsg == ""
NoAddressMsg == "Please provide address or set AGENT_ADDRESS environment variable"
PleaseLoginMsg == "Please login to TrustGo first using trustgo_login"
InvalidTypeMsg == "Invalid bubble type. Must be one of: price, sigma_score, mindshare"
RankedFailedMsg == "Failed to query ranked bubbles: {message}"
QueryFailedMsg == "Query failed: {exception}"
ClaimOkMsg == "Sigma attestation claimed successfully"
ClaimRejectedMsg == "Failed to claim sigma attestation: {message}"
ClaimFailedMsg == "Claim failed: {exception}"
TwitterMismatchMsg == "Twitter signature verification failed"
TwitterOkMsg == "Twitter signature verified successfully"
SignFailedMsg == "Sign failed: {exception}"

\* ------------------------------------------------------------ pure helpers
\* f"sign the message to login trustgo{timestamp}"
LoginMessage(timestamp) == "sign the message to login trustgo" \o ToString(timestamp)

\* f"Using AgentGo to sign with twitter {address} code is {number}"
TwitterMessage(address, number) ==
    "Using AgentGo to sign with twitter " \o address \o " code is " \o ToString(number)

\* ExpectedAnswer_Precedence is ExpectedAnswer read with the subtraction
\* applied before the remainder: (num1 * num2) + ((num3 ** 2) - num1) % num3.
ExpectedAnswer_Precedence(num1, num2, num3) ==
    LET base == 10000
        a1 == num1 \div base
        a0 == num1 % base
        b1 == num2 \div base
        b0 == num2 % base
        t0 == (a0 * b0) + (((num3 * num3) - num1) % num3)
        t1 == (a1 * b0) + (a0 * b1) + (t0 \div base)
        t2 == (a1 * b1) + (t1 \div base)
    IN  <<t2 \div base, t2 % base, t1 % base, t0 % base>>

\* (num1 * num2) + (num3 ** 2) - (num1 % num3).  Python integers are unbounded
\* and TLC's are 32 bits wide: the answer (up to about 10^14) is kept exactly,
\* as four digits in base 10000, most significant first.  num1 and num2 are
\* split in two such digits, so that no intermediate product leaves 32 bits.
ExpectedAnswer(num1, num2, num3) ==
    LET base == 10000
        a1 == num1 \div base
        a0 == num1 % base
        b1 == num2 \div base
        b0 == num2 % base
        t0 == (a0 * b0) + ((num3 * num3) - (num1 % num3))
        t1 == (a1 * b0) + (a0 * b1) + (t0 \div base)
        t2 == (a1 * b1) + (t1 \div base)
    IN  <<t2 \div base, t2 % base, t1 % base, t0 % base>>

Answers == {ExpectedAnswer(n1, n2, n3) :
                n1 \in Num1Samples, n2 \in Num2Samples, n3 \in Num3Samples}
NumberArgs == Answers \cup {<<0, 0, 0, 1>>, NoNumber}
MessageArgs == {LoginMessage(t) : t \in 0..MaxTime}

\* address or DEFAULT_ADDRESS
Resolve(address, default) == IF address # NoAddress THEN address ELSE default

\* {}
EmptyDict == [k \in {} |-> <<>>]

\* a dictionary with one more (or one replaced) key
Put(dict, key, value) ==
    [k \in DOMAIN dict \cup {key} |-> IF k = key THEN value ELSE dict[k]]

\* del dict[key]
Del(dict, key) == [k \in DOMAIN dict \ {key} |-> dict[k]]

\* ------------------------------------------------------------------- state
VARIABLES
    DEFAULT_ADDRESS,    \* os.getenv('AGENT_ADDRESS', ''), fixed at start
    now,                \* the wall clock, in whole seconds
    challenge_storage,  \* address -> [login: 0 or 1 login challenge, twitter: 0 or 1 social challenge]
    auth_tokens,        \* address -> [trustgo_token, trustgo_login_time]
    pending,            \* bag of the frames of the coroutines suspended at an upstream call
    ret,                \* what the last handler step returned ("awaiting": it suspended)
    steps,              \* the number of steps taken so far
    attempt,            \* history: address -> the arguments of the last trustgo_login that passed
                        \*   the local checks since the last login challenge was issued, and its fate
    issued,             \* history: address -> the timestamps of the login challenges issued for it, in order
    verified            \* history: addresses whose stored message and expected_answer were echoed exactly

vars == <<DEFAULT_ADDRESS, now, challenge_storage, auth_tokens, pending, ret, steps,
          attempt, issued, verified>>

\* ---------------------------------------------------------------- records
\* The keys expected_answer, timestamp and message of a record are written
\* together (one dict literal) and never removed one by one: they are one slot.
\* challenge_created is a second reading of the same clock and is left out.
LoginSlot(expected_answer, timestamp, message) ==
    <<[expected_answer |-> expected_answer, timestamp |-> timestamp, message |-> message]>>

TwitterSlot(message, number, user_screen_name) ==
    <<[message |-> message, number |-> number, user_screen_name |-> user_screen_name]>>

\* What a handler step returns: the result dictionary (status, message and the
\* other values of the dictionary, in data), next to the tool that returned it,
\* the address it resolved and the other arguments of the call.
Result(op, address, args, status, message, data) ==
    [op |-> op, address |-> address, args |-> args, status |-> status,
     message |-> message, data |-> data]

\* the handler returned nothing yet: it is suspended at its upstream call
Awaiting(op, address, args) == Result(op, address, args, "awaiting", "", <<>>)

Frame(api, op, address, message, signature, number, token, tag) ==
    [api |-> api, op |-> op, address |-> address, message |-> message,
     signature |-> signature, number |-> number, token |-> token, tag |-> tag]

Suspend(frame) == pending (+) SetToBag({frame})
Wake(frame) == pending (-) SetToBag({frame})
CanSuspend == BagCardinality(pending) < MaxInflight

HasLoginChallenge(storage, address) ==
    address \in DOMAIN storage /\ storage[address].login # <<>>

HasTwitterChallenge(storage, address) ==
    address \in DOMAIN storage /\ storage[address].twitter # <<>>

\* every action is one more step
Advance == steps < MaxSteps /\ steps' = steps + 1

Init ==
    /\ DEFAULT_ADDRESS \in {NoAddress, "0xA"}
    /\ now = 0
    /\ challenge_storage = EmptyDict
    /\ auth_tokens = EmptyDict
    /\ pending = EmptyBag
    /\ ret = Result("none", NoAddress, <<>>, "none", "", <<>>)
    /\ attempt = [a \in AddressArgs |-> <<>>]
    /\ issued = [a \in AddressArgs |-> <<>>]
    /\ verified = {}
    /\ steps = 0

\* datetime.now() moves on
Tick ==
    /\ Advance
    /\ now < MaxTime
    /\ now' = now + 1
    /\ UNCHANGED <<DEFAULT_ADDRESS, challenge_storage, auth_tokens, pending, ret,
                   attempt, issued, verified>>

\* ------------------------------------------------- get_trustgo_login_message
\* StoreLoginChallenge assigning a new dictionary that holds the record of the
\* address alone
StoreLoginChallenge_Reset(storage, user_address, expected_answer, timestamp, message) ==
    Put(EmptyDict, user_address,
        [login |-> LoginSlot(expected_answer, timestamp, message), twitter |-> <<>>])

\* challenge_storage[user_address] = {...}: the whole record of the address
\* is replaced by one that holds the login keys only
StoreLoginChallenge(storage, user_address, expected_answer, timestamp, message) ==
    Put(storage, user_address,
        [login |-> LoginSlot(expected_answer, timestamp, message), twitter |-> <<>>])

\* get_trustgo_login_message from the reading of the clock on, with the three
\* operands random.randint drew
IssueLoginChallenge(user_address, num1, num2, num3) ==
    LET timestamp == now
        message == LoginMessage(timestamp)
        expected_answer == ExpectedAnswer(num1, num2, num3)
    IN  /\ challenge_storage' = StoreLoginChallenge(challenge_storage, user_address,
                                                    expected_answer, timestamp, message)
        /\ ret' = Result("get_trustgo_login_message", user_address, <<>>, "success",
                         message, <<num1, num2, num3>>)
        /\ attempt' = [attempt EXCEPT ![user_address] = <<>>]
        /\ issued' = [issued EXCEPT ![user_address] = Append(@, timestamp)]
        /\ UNCHANGED <<DEFAULT_ADDRESS, now, auth_tokens, pending, verified>>

get_trustgo_login_message(address) ==
    LET user_address == Resolve(address, DEFAULT_ADDRESS) IN
    /\ Advance
    /\ IF user_address = NoAddress
       THEN /\ ret' = Result("get_trustgo_login_message", user_address, <<>>, "error",
                             NoAddressMsg, <<>>)
            /\ UNCHANGED <<DEFAULT_ADDRESS, now, challenge_storage, auth_tokens, pending,
                           attempt, issued, verified>>
       ELSE \E num1 \in Num1Samples, num2 \in Num2Samples, num3 \in Num3Samples :
              IssueLoginChallenge(user_address, num1, num2, num3)

\* ------------------------------------------------------------ trustgo_login
\* The local checks, in the order of the code: the text of the error result,
\* or PassedMsg.  A record that holds a social challenge only has no "message"
\* key: challenge["message"] raises KeyError, which the handler's except turns
\* into a result.
\* LoginChecks without the comparison of the echoed message
LoginChecks_NoMessageCheck(storage, address, message, number) ==
    IF address \notin DOMAIN storage THEN NoChallengeMsg
    ELSE IF storage[address].login = <<>> THEN KeyErrorMsg
    ELSE IF number = NoNumber THEN MissingNumberMsg
    ELSE IF number # storage[address].login[1].expected_answer THEN IncorrectMsg
    ELSE PassedMsg

\* LoginChecks without the comparison of the number
LoginChecks_NoAnswerCheck(storage, address, message, number) ==
    IF address \notin DOMAIN storage THEN NoChallengeMsg
    ELSE IF storage[address].login = <<>> THEN KeyErrorMsg
    ELSE IF message # storage[address].login[1].message THEN MismatchMsg
    ELSE IF number = NoNumber THEN MissingNumberMsg
    ELSE PassedMsg

\* LoginChecks with the number checked before the message
LoginChecks_AnswerFirst(storage, address, message, number) ==
    IF address \notin DOMAIN storage THEN NoChallengeMsg
    ELSE IF storage[address].login = <<>> THEN KeyErrorMsg
    ELSE IF number = NoNumber THEN MissingNumberMsg
    ELSE IF number # storage[address].login[1].expected_answer THEN IncorrectMsg
    ELSE IF message # storage[address].login[1].message THEN MismatchMsg
    ELSE PassedMsg

LoginChecks(storage, address, message, number) ==
    IF address \notin DOMAIN storage THEN NoChallengeMsg
    ELSE IF storage[address].login = <<>> THEN KeyErrorMsg
    ELSE IF message # storage[address].login[1].message THEN MismatchMsg
    ELSE IF number = NoNumber THEN MissingNumberMsg
    ELSE IF number # storage[address].login[1].expected_answer THEN IncorrectMsg
    ELSE PassedMsg

\* the values an error result discloses
LoginErrorData(storage, address, message, number) ==
    IF LoginChecks(storage, address, message, number) = IncorrectMsg
    THEN <<storage[address].login[1].expected_answer, number>>
    ELSE <<>>

\* history only: the call echoes the stored message and the stored answer
ExactAnswer(storage, address, message, number) ==
    /\ HasLoginChallenge(storage, address)
    /\ message = storage[address].login[1].message
    /\ number = storage[address].login[1].expected_answer

Attempt(message, signature, number, fate) ==
    <<[message |-> message, signature |-> signature, number |-> number, fate |-> fate]>>

\* trustgo_login consuming the challenge when the number is incorrect
trustgo_login_Strike(address, signature, message, number) ==
    /\ Advance
    /\ IF LoginChecks(challenge_storage, address, message, number) = PassedMsg
       THEN /\ CanSuspend
            /\ challenge_storage' = Del(challenge_storage, address)
            /\ pending' = Suspend(Frame("check_signed_message", "trustgo_login", address,
                                        message, signature, number, NoToken, ""))
            /\ ret' = Awaiting("trustgo_login", address, <<signature, message, number>>)
            /\ attempt' = [attempt EXCEPT ![address] =
                               Attempt(message, signature, number, "awaiting")]
            /\ verified' = IF ExactAnswer(challenge_storage, address, message, number)
                           THEN verified \cup {address} ELSE verified
            /\ UNCHANGED <<DEFAULT_ADDRESS, now, auth_tokens, issued>>
       ELSE /\ ret' = Result("trustgo_login", address, <<signature, message, number>>, "error",
                             LoginChecks(challenge_storage, address, message, number),
                             LoginErrorData(challenge_storage, address, message, number))
            /\ challenge_storage' =
                   IF LoginChecks(challenge_storage, address, message, number) = IncorrectMsg
                   THEN Del(challenge_storage, address)
                   ELSE challenge_storage
            /\ UNCHANGED <<DEFAULT_ADDRESS, now, auth_tokens, pending,
                           attempt, issued, verified>>

\* trustgo_login dropping the session of the address when a local check fails
trustgo_login_Logout(address, signature, message, number) ==
    /\ Advance
    /\ IF LoginChecks(challenge_storage, address, message, number) = PassedMsg
       THEN /\ CanSuspend
            /\ challenge_storage' = Del(challenge_storage, address)
            /\ pending' = Suspend(Frame("check_signed_message", "trustgo_login", address,
                                        message, signature, number, NoToken, ""))
            /\ ret' = Awaiting("trustgo_login", address, <<signature, message, number>>)
            /\ attempt' = [attempt EXCEPT ![address] =
                               Attempt(message, signature, number, "awaiting")]
            /\ verified' = IF ExactAnswer(challenge_storage, address, message, number)
                           THEN verified \cup {address} ELSE verified
            /\ UNCHANGED <<DEFAULT_ADDRESS, now, auth_tokens, issued>>
       ELSE /\ ret' = Result("trustgo_login", address, <<signature, message, number>>, "error",
                             LoginChecks(challenge_storage, address, message, number),
                             LoginErrorData(challenge_storage, address, message, number))
            /\ auth_tokens' = Del(auth_tokens, address)
            /\ UNCHANGED <<DEFAULT_ADDRESS, now, challenge_storage, pending,
                           attempt, issued, verified>>

\* up to the await of session.post
trustgo_login(address, signature, message, number) ==
    /\ Advance
    /\ IF LoginChecks(challenge_storage, address, message, number) = PassedMsg
       THEN /\ CanSuspend
            /\ challenge_storage' = Del(challenge_storage, address)
            /\ pending' = Suspend(Frame("check_signed_message", "trustgo_login", address,
                                        message, signature, number, NoToken, ""))
            /\ ret' = Awaiting("trustgo_login", address, <<signature, message, number>>)
            /\ attempt' = [attempt EXCEPT ![address] =
                               Attempt(message, signature, number, "awaiting")]
            /\ verified' = IF ExactAnswer(challenge_storage, address, message, number)
                           THEN verified \cup {address} ELSE verified
            /\ UNCHANGED <<DEFAULT_ADDRESS, now, auth_tokens, issued>>
       ELSE /\ ret' = Result("trustgo_login", address, <<signature, message, number>>, "error",
                             LoginChecks(challenge_storage, address, message, number),
                             LoginErrorData(challenge_storage, address, message, number))
            /\ UNCHANGED <<DEFAULT_ADDRESS, now, challenge_storage, auth_tokens, pending,
                           attempt, issued, verified>>

\* What check_signed_message can answer: the request or the decoding of the
\* answer raises, or an answer with a status, a success flag and a token
\* (NoToken: data or data.token is missing or empty).
LoginResponses ==
    [kind : {"raise"}, status : {0}, success : {FALSE}, token : {NoToken}]
    \cup [kind : {"response"}, status : {200, 500}, success : BOOLEAN,
          token : Tokens \cup {NoToken}]

\* auth_tokens[address]['trustgo_token'] = token, with the time of the login;
\* no other key of the per-address dictionary is ever written
StoreToken(tokens, address, token, time) ==
    Put(tokens, address, [trustgo_token |-> token, trustgo_login_time |-> time])

LoginArgs(frame) == <<frame.signature, frame.message, frame.number>>

\* LoginOutcome letting the exception of the upstream call through to the caller
LoginOutcome_Escapes(frame, response) ==
    IF response.kind = "raise"
    THEN Result("trustgo_login", frame.address, LoginArgs(frame), "exception", "", <<>>)
    ELSE IF response.status = 200 /\ response.success
    THEN IF response.token = NoToken
         THEN Result("trustgo_login", frame.address, LoginArgs(frame), "error",
                     NoTokenMsg, <<frame.address, frame.signature>>)
         ELSE Result("trustgo_login", frame.address, LoginArgs(frame), "success",
                     LoginOkMsg, <<frame.address, response.token, frame.message>>)
    ELSE Result("trustgo_login", frame.address, LoginArgs(frame), "error",
                UpstreamRejectedMsg, <<>>)

\* the result of trustgo_login once the upstream has answered
LoginOutcome(frame, response) ==
    IF response.kind = "raise"
    THEN Result("trustgo_login", frame.address, LoginArgs(frame), "error",
                LoginExceptionMsg, <<>>)
    ELSE IF response.status = 200 /\ response.success
    THEN IF response.token = NoToken
         THEN Result("trustgo_login", frame.address, LoginArgs(frame), "error",
                     NoTokenMsg, <<frame.address, frame.signature>>)
         ELSE Result("trustgo_login", frame.address, LoginArgs(frame), "success",
                     LoginOkMsg, <<frame.address, response.token, frame.message>>)
    ELSE Result("trustgo_login", frame.address, LoginArgs(frame), "error",
                UpstreamRejectedMsg, <<>>)

SameAttempt(frame, a) ==
    /\ a # <<>>
    /\ a[1].message = frame.message
    /\ a[1].signature = frame.signature
    /\ a[1].number = frame.number

\* after the await: the upstream has answered
trustgo_login_resume(frame, response) ==
    LET result == LoginOutcome(frame, response) IN
    /\ Advance
    /\ BagIn(frame, pending)
    /\ frame.api = "check_signed_message"
    /\ pending' = Wake(frame)
    /\ ret' = result
    /\ auth_tokens' = IF result.status = "success"
                      THEN StoreToken(auth_tokens, frame.address, response.token, now)
                      ELSE auth_tokens
    /\ attempt' = IF SameAttempt(frame, attempt[frame.address])
                  THEN [attempt EXCEPT ![frame.address] =
                            Attempt(frame.message, frame.signature, frame.number,
                                    IF result.status = "success" THEN "token" ELSE "failed")]
                  ELSE attempt
    /\ UNCHANGED <<DEFAULT_ADDRESS, now, challenge_storage, issued, verified>>

\* ----------------------------------------------------- query_ranked_bubbles
\* The local checks of the facade, in the order of the code: the text of the
\* error result, or PassedMsg.
\* QueryChecks with the tag validated before the token is looked up
QueryChecks_TypeFirst(tokens, query_address, bubble_type) ==
    IF bubble_type \notin BubbleTypes THEN InvalidTypeMsg
    ELSE IF ~(query_address # NoAddress /\ query_address \in DOMAIN tokens) THEN PleaseLoginMsg
    ELSE IF tokens[query_address].trustgo_token = NoToken THEN PleaseLoginMsg
    ELSE PassedMsg

\* QueryChecks without the validation of the tag
QueryChecks_NoTypeCheck(tokens, query_address, bubble_type) ==
    IF ~(query_address # NoAddress /\ query_address \in DOMAIN tokens) THEN PleaseLoginMsg
    ELSE IF tokens[query_address].trustgo_token = NoToken THEN PleaseLoginMsg
    ELSE PassedMsg

QueryChecks(tokens, query_address, bubble_type) ==
    IF ~(query_address # NoAddress /\ query_address \in DOMAIN tokens) THEN PleaseLoginMsg
    ELSE IF tokens[query_address].trustgo_token = NoToken THEN PleaseLoginMsg
    ELSE IF bubble_type \notin BubbleTypes THEN InvalidTypeMsg
    ELSE PassedMsg

\* query_ranked_bubbles up to the await of session.get, entered from the tool
\* `op`: the two convenience tools call it as a plain coroutine (no suspension
\* in between) and hand its error result back unchanged.
Query(op, bubble_type, address) ==
    LET query_address == Resolve(address, DEFAULT_ADDRESS) IN
    /\ Advance
    /\ IF QueryChecks(auth_tokens, query_address, bubble_type) = PassedMsg
       THEN /\ CanSuspend
            /\ pending' = Suspend(Frame("ranked_bubbles", op, query_address, "", "", NoNumber,
                                        auth_tokens[query_address].trustgo_token, bubble_type))
            /\ ret' = Awaiting(op, query_address, <<bubble_type>>)
            /\ UNCHANGED <<DEFAULT_ADDRESS, now, challenge_storage, auth_tokens,
                           attempt, issued, verified>>
       ELSE /\ ret' = Result(op, query_address, <<bubble_type>>, "error",
                             QueryChecks(auth_tokens, query_address, bubble_type), <<>>)
            /\ UNCHANGED <<DEFAULT_ADDRESS, now, challenge_storage, auth_tokens, pending,
                           attempt, issued, verified>>

query_ranked_bubbles(bubble_type, address) ==
    Query("query_ranked_bubbles", bubble_type, address)

\* query_price_bubble_info asking the upstream itself, with no token
query_price_bubble_info_Direct(address) ==
    LET query_address == Resolve(address, DEFAULT_ADDRESS) IN
    /\ Advance
    /\ CanSuspend
    /\ pending' = Suspend(Frame("ranked_bubbles", "query_price_bubble_info", query_address,
                                "", "", NoNumber, NoToken, "price"))
    /\ ret' = Awaiting("query_price_bubble_info", query_address, <<"price">>)
    /\ UNCHANGED <<DEFAULT_ADDRESS, now, challenge_storage, auth_tokens,
                   attempt, issued, verified>>

query_price_bubble_info(address) == Query("query_price_bubble_info", "price", address)

query_sigma_score_bubble_info(address) ==
    Query("query_sigma_score_bubble_info", "sigma_score", address)

\* the HTTP status of the answer, or "raise"
RankedResponses == {"raise", "200", "500"}

\* the result the tool frame.op returns once the upstream has answered
QueryOutcome(frame, response) ==
    IF response = "raise"
    THEN Result(frame.op, frame.address, <<frame.tag>>, "error", QueryFailedMsg, <<>>)
    ELSE IF response = "200"
    THEN Result(frame.op, frame.address, <<frame.tag>>, "success", "", <<frame.tag>>)
    ELSE Result(frame.op, frame.address, <<frame.tag>>, "error", RankedFailedMsg, <<>>)

query_ranked_bubbles_resume(frame, response) ==
    /\ Advance
    /\ BagIn(frame, pending)
    /\ frame.api = "ranked_bubbles"
    /\ pending' = Wake(frame)
    /\ ret' = QueryOutcome(frame, response)
    /\ UNCHANGED <<DEFAULT_ADDRESS, now, challenge_storage, auth_tokens,
                   attempt, issued, verified>>

\* -------------------------------------------------- claim_sigma_attestation
\* no local check: the caller's token goes to the upstream as it is
claim_sigma_attestation(token, slug, address) ==
    /\ Advance
    /\ CanSuspend
    /\ pending' = Suspend(Frame("attest_calldata", "claim_sigma_attestation", address,
                                "", "", NoNumber, token, slug))
    /\ ret' = Awaiting("claim_sigma_attestation", address, <<token, slug>>)
    /\ UNCHANGED <<DEFAULT_ADDRESS, now, challenge_storage, auth_tokens,
                   attempt, issued, verified>>

\* the answer's code is 0, or it is not, or the call raises
ClaimResponses == {"raise", "code 0", "code 1"}

ClaimOutcome(frame, response) ==
    IF response = "raise"
    THEN Result(frame.op, frame.address, <<frame.token, frame.tag>>, "error",
                ClaimFailedMsg, <<>>)
    ELSE IF response = "code 0"
    THEN Result(frame.op, frame.address, <<frame.token, frame.tag>>, "success",
                ClaimOkMsg, <<>>)
    ELSE Result(frame.op, frame.address, <<frame.token, frame.tag>>, "error",
                ClaimRejectedMsg, <<>>)

claim_sigma_attestation_resume(frame, response) ==
    /\ Advance
    /\ BagIn(frame, pending)
    /\ frame.api = "attest_calldata"
    /\ pending' = Wake(frame)
    /\ ret' = ClaimOutcome(frame, response)
    /\ UNCHANGED <<DEFAULT_ADDRESS, now, challenge_storage, auth_tokens,
                   attempt, issued, verified>>

\* ------------------------------------------------------------ login_twitter
\* a new record with the twitter key alone, or the twitter key of the record
\* that is there; the new social challenge has no user_screen_name
\* StoreTwitterChallenge replacing the whole record of the address
StoreTwitterChallenge_Replace(storage, address, message, number) ==
    Put(storage, address, [login |-> <<>>, twitter |-> TwitterSlot(message, number, <<>>)])

StoreTwitterChallenge(storage, address, message, number) ==
    IF address \notin DOMAIN storage
    THEN Put(storage, address, [login |-> <<>>, twitter |-> TwitterSlot(message, number, <<>>)])
    ELSE Put(storage, address,
             [storage[address] EXCEPT !.twitter = TwitterSlot(message, number, <<>>)])

login_twitter(address) ==
    \E number \in CodeSamples :
        LET message == TwitterMessage(address, number) IN
        /\ Advance
        /\ challenge_storage' = StoreTwitterChallenge(challenge_storage, address, message, number)
        /\ ret' = Result("login_twitter", address, <<>>, "success", message, <<number>>)
        /\ UNCHANGED <<DEFAULT_ADDRESS, now, auth_tokens, pending,
                       attempt, issued, verified>>

\* ------------------------------------------------- verify_twitter_signature
\* verify_twitter_signature making a record for an address that has none
\* before it looks the post up
verify_twitter_signature_Create(tweet_id, address) ==
    /\ Advance
    /\ CanSuspend
    /\ pending' = Suspend(Frame("tweet", "verify_twitter_signature", address,
                                "", "", NoNumber, NoToken, tweet_id))
    /\ ret' = Awaiting("verify_twitter_signature", address, <<tweet_id>>)
    /\ challenge_storage' =
           IF address \in DOMAIN challenge_storage
           THEN challenge_storage
           ELSE Put(challenge_storage, address, [login |-> <<>>, twitter |-> <<>>])
    /\ UNCHANGED <<DEFAULT_ADDRESS, now, auth_tokens, attempt, issued, verified>>

\* no local check: the post is looked up first
verify_twitter_signature(tweet_id, address) ==
    /\ Advance
    /\ CanSuspend
    /\ pending' = Suspend(Frame("tweet", "verify_twitter_signature", address,
                                "", "", NoNumber, NoToken, tweet_id))
    /\ ret' = Awaiting("verify_twitter_signature", address, <<tweet_id>>)
    /\ UNCHANGED <<DEFAULT_ADDRESS, now, challenge_storage, auth_tokens,
                   attempt, issued, verified>>

\* response_data.get("text") is None
NoText == ""
\* the texts a looked-up post can have: a generated message, the same with
\* another code or for another address, or none
TweetTexts ==
    {TwitterMessage(a, n) : a \in Addresses, n \in CodeSamples \cup {Num12Max}}
    \cup {NoText}

\* What the post lookup can answer: it raises, or a post with a text and an
\* author (<<>>: the answer has no author; else the author's screen_name).
TweetResponses ==
    [kind : {"raise"}, text : {NoText}, author : {<<>>}]
    \cup [kind : {"response"}, text : TweetTexts,
          author : {<<>>} \cup {<<n>> : n \in ScreenNames}]

\* The part of verify_twitter_signature after the lookup: the text of its
\* result.  challenge_storage[address]["twitter"] raises KeyError without the
\* record or without its twitter key, and response_data.get("author") is None
\* without an author: the handler's except turns both into a result.
\* TwitterChecks without the comparison of the fetched text
TwitterChecks_NoTextCheck(storage, address, response) ==
    IF response.kind = "raise" THEN SignFailedMsg
    ELSE IF ~HasTwitterChallenge(storage, address) THEN SignFailedMsg
    ELSE IF response.author = <<>> THEN SignFailedMsg
    ELSE TwitterOkMsg

TwitterChecks(storage, address, response) ==
    IF response.kind = "raise" THEN SignFailedMsg
    ELSE IF ~HasTwitterChallenge(storage, address) THEN SignFailedMsg
    ELSE IF response.text # storage[address].twitter[1].message THEN TwitterMismatchMsg
    ELSE IF response.author = <<>> THEN SignFailedMsg
    ELSE TwitterOkMsg

\* StoreScreenName consuming the social challenge it verified
StoreScreenName_Consume(storage, address, user_screen_name) ==
    Put(storage, address, [storage[address] EXCEPT !.twitter = <<>>])

\* challenge_storage[address]["twitter"]["user_screen_name"] = user_screen_name
StoreScreenName(storage, address, user_screen_name) ==
    Put(storage, address,
        [storage[address] EXCEPT !.twitter =
            TwitterSlot(@[1].message, @[1].number, <<user_screen_name>>)])

verify_twitter_signature_resume(frame, response) ==
    LET text == TwitterChecks(challenge_storage, frame.address, response) IN
    /\ Advance
    /\ BagIn(frame, pending)
    /\ frame.api = "tweet"
    /\ pending' = Wake(frame)
    /\ IF text = TwitterOkMsg
       THEN /\ challenge_storage' =
                   StoreScreenName(challenge_storage, frame.address, response.author[1])
            /\ ret' = Result(frame.op, frame.address, <<frame.tag>>, "success", text,
                             response.author)
       ELSE /\ challenge_storage' = challenge_storage
            /\ ret' = Result(frame.op, frame.address, <<frame.tag>>, "error", text, <<>>)
    /\ UNCHANGED <<DEFAULT_ADDRESS, now, auth_tokens, attempt, issued, verified>>

\* ------------------------------------------------------------ specification
Frames == BagToSet(pending)

Next ==
    \/ Tick
    \/ \E address \in AddressArgs : get_trustgo_login_message(address)
    \/ \E address \in Addresses, signature \in Signatures,
          message \in MessageArgs, number \in NumberArgs :
            trustgo_login(address, signature, message, number)
    \/ \E frame \in Frames, response \in LoginResponses :
            trustgo_login_resume(frame, response)
    \/ \E bubble_type \in BubbleTypeArgs, address \in AddressArgs :
            query_ranked_bubbles(bubble_type, address)
    \/ \E address \in AddressArgs : query_price_bubble_info(address)
    \/ \E address \in AddressArgs : query_sigma_score_bubble_info(address)
    \/ \E frame \in Frames, response \in RankedResponses :
            query_ranked_bubbles_resume(frame, response)
    \/ \E token \in Tokens, slug \in Slugs, address \in Addresses :
            claim_sigma_attestation(token, slug, address)
    \/ \E frame \in Frames, response \in ClaimResponses :
            claim_sigma_attestation_resume(frame, response)
    \/ \E address \in Addresses : login_twitter(address)
    \/ \E tweet_id \in TweetIds, address \in Addresses :
            verify_twitter_signature(tweet_id, address)
    \/ \E frame \in Frames, response \in TweetResponses :
            verify_twitter_signature_resume(frame, response)

Spec == Init /\ [][Next]_vars

\* ------------------------------------------------- the puzzle, over its range
\* The operands of a challenge over the ranges random.randint draws them from
\* (the ends of each range and values inside it), for the first challenge
\* issued and the answers a caller gives to the challenge it was
\* returned: the value of the formula, the value next to it, or none.
PuzzleNum12 == {Num12Min, Num12Min + 1, 3141592, 5000000, Num12Max - 1, Num12Max}
PuzzleNum3 == {Num3Min, Num3Min + 1, 500, 997, Num3Max}

PuzzleIssue ==
    \E address \in Addresses, num1 \in PuzzleNum12, num2 \in PuzzleNum12, num3 \in PuzzleNum3 :
        /\ Advance
        /\ \A a \in Addresses : issued[a] = <<>>
        /\ IssueLoginChallenge(address, num1, num2, num3)

NextTo(number) == [number EXCEPT ![4] = (@ + 1) % 10000]

PuzzleSubmit ==
    /\ ret.op = "get_trustgo_login_message"
    /\ ret.status = "success"
    /\ \E signature \in Signatures,
          number \in {ExpectedAnswer(ret.data[1], ret.data[2], ret.data[3]),
                      NextTo(ExpectedAnswer(ret.data[1], ret.data[2], ret.data[3])),
                      NoNumber} :
            trustgo_login(ret.address, signature, ret.message, number)

PuzzleNext ==
    \/ PuzzleIssue
    \/ PuzzleSubmit
    \/ \E frame \in Frames, response \in LoginResponses :
            trustgo_login_resume(frame, response)

PuzzleSpec == Init /\ [][PuzzleNext]_vars

\* ------------------------------------------------------------------ claims
\* Steps of Spec, told by what they return: the action is evaluated on the step
\* with the arguments the result records.
LoginCalled ==
    /\ ret'.op = "trustgo_login"
    /\ trustgo_login(ret'.address, ret'.args[1], ret'.args[2], ret'.args[3])

\* the frames that leave pending on the step, and those that enter it
Woken == {frame \in Frames : CopiesIn(frame, pending') < CopiesIn(frame, pending)}
Dispatched == {frame \in BagToSet(pending') :
                  CopiesIn(frame, pending') > CopiesIn(frame, pending)}

LoginResumed ==
    /\ ret'.op = "trustgo_login"
    /\ \E frame \in Woken, response \in LoginResponses :
           trustgo_login_resume(frame, response)

\* the arguments of the call that returns are those of the recorded attempt
Repeats(a, args) ==
    /\ a # <<>>
    /\ a[1].signature = args[1]
    /\ a[1].message = args[2]
    /\ a[1].number = args[3]

\* C1: once a trustgo_login for an address has passed the local checks, a
\* second trustgo_login for it with the same message, signature and number,
\* with no get_trustgo_login_message for the address in between, returns the
\* 'no challenge found' error.
C1_SecondLoginFindsNoChallenge ==
    [][(LoginCalled /\ Repeats(attempt[ret'.address], ret'.args))
          => ret'.message = NoChallengeMsg]_vars

\* C2: after two successive get_trustgo_login_message calls for an address,
\* whatever the time between them, a trustgo_login for it that echoes the first
\* challenge's message while the second challenge is stored is rejected with
\* the message-mismatch error and reaches no upstream check.
EarlierIssues(a) == {issued[a][i] : i \in 1..(Len(issued[a]) - 1)}

C2_FirstMessageRejected ==
    [][(/\ LoginCalled
        /\ HasLoginChallenge(challenge_storage, ret'.address)
        /\ \E t \in EarlierIssues(ret'.address) : ret'.args[2] = LoginMessage(t))
          => (ret'.message = MismatchMsg /\ pending' = pending)]_vars

\* C2, amended: the same, for a first challenge issued at another second than
\* the one that is stored.
C2_OlderSecondRejected ==
    [][(/\ LoginCalled
        /\ HasLoginChallenge(challenge_storage, ret'.address)
        /\ \E t \in EarlierIssues(ret'.address) :
               /\ t # challenge_storage[ret'.address].login[1].timestamp
               /\ ret'.args[2] = LoginMessage(t))
          => (ret'.message = MismatchMsg /\ pending' = pending)]_vars

\* a trustgo_login that echoed the message of an earlier second has been
\* rejected as a mismatch, the later challenge still stored
C2_Witness ==
    /\ ret.op = "trustgo_login"
    /\ ret.message = MismatchMsg
    /\ HasLoginChallenge(challenge_storage, ret.address)
    /\ \E t \in EarlierIssues(ret.address) :
           /\ t # challenge_storage[ret.address].login[1].timestamp
           /\ ret.args[2] = LoginMessage(t)

\* C3: the challenge is consumed before the upstream answers and is not
\* restored: when the upstream check of a trustgo_login fails, the address has
\* no stored login challenge (none was issued since the call passed), and a
\* retry with the same arguments returns the 'no challenge found' error until
\* get_trustgo_login_message is called again for the address.
C3_FailedLoginLeavesNoChallenge ==
    [][/\ (/\ LoginResumed
           /\ ret'.status = "error"
           /\ Repeats(attempt[ret'.address], ret'.args))
             => ~HasLoginChallenge(challenge_storage', ret'.address)
       /\ (/\ LoginCalled
           /\ Repeats(attempt[ret'.address], ret'.args)
           /\ attempt[ret'.address][1].fate = "failed")
             => ret'.message = NoChallengeMsg]_vars

\* C4: a token is written to auth_tokens only by the resumption of a
\* trustgo_login whose upstream answer is a success with a token, for the
\* address of that call; a success without a token returns an error and writes
\* nothing; so an address with a stored token has had its stored message and
\* expected_answer echoed exactly.
C4_TokenOnlyAfterVerifiedLogin ==
    [][/\ (auth_tokens' # auth_tokens) =>
             \E frame \in Woken, response \in LoginResponses :
                 /\ trustgo_login_resume(frame, response)
                 /\ response.kind = "response" /\ response.status = 200
                 /\ response.success /\ response.token # NoToken
                 /\ ret'.status = "success"
                 /\ DOMAIN auth_tokens' = DOMAIN auth_tokens \cup {frame.address}
                 /\ auth_tokens'[frame.address].trustgo_token = response.token
                 /\ \A a \in DOMAIN auth_tokens \ {frame.address} :
                        auth_tokens'[a] = auth_tokens[a]
       /\ \A frame \in Woken, response \in LoginResponses :
             (/\ trustgo_login_resume(frame, response)
              /\ response.kind = "response" /\ response.status = 200
              /\ response.success /\ response.token = NoToken)
                => (ret'.status = "error" /\ auth_tokens' = auth_tokens)
       /\ \A a \in DOMAIN auth_tokens' :
             a \in verified' /\ auth_tokens'[a].trustgo_token # NoToken]_vars

\* a login has just stored its token
C4_Witness ==
    /\ ret.op = "trustgo_login"
    /\ ret.status = "success"
    /\ ret.address \in DOMAIN auth_tokens
    /\ auth_tokens[ret.address].trustgo_token = ret.data[2]
    /\ ret.address \in verified

\* C5: with a login challenge stored for the address, a trustgo_login whose
\* message differs from the stored one returns the message-mismatch error
\* whatever its number (right, wrong or absent), and with the message right an
\* absent number returns the missing-answer error, never the incorrect-answer one.
C5_MessageCheckedFirst ==
    [][(LoginCalled /\ HasLoginChallenge(challenge_storage, ret'.address)) =>
          LET stored == challenge_storage[ret'.address].login[1] IN
          /\ ret'.args[2] # stored.message => ret'.message = MismatchMsg
          /\ (ret'.args[2] = stored.message /\ ret'.args[3] = NoNumber)
                => ret'.message = MissingNumberMsg
          /\ ret'.message = IncorrectMsg
                => /\ ret'.args[2] = stored.message
                   /\ ret'.args[3] # NoNumber
                   /\ ret'.args[3] # stored.expected_answer]_vars

\* the right number with another message has been rejected as a mismatch
C5_Witness ==
    /\ ret.op = "trustgo_login"
    /\ ret.message = MismatchMsg
    /\ HasLoginChallenge(challenge_storage, ret.address)
    /\ ret.args[3] = challenge_storage[ret.address].login[1].expected_answer
    /\ ret.args[2] # challenge_storage[ret.address].login[1].message

\* C6: whenever the address has no unconsumed login challenge (none issued,
\* the last one consumed, or a social-binding challenge only), trustgo_login
\* returns the 'no challenge found' error and dispatches no upstream call.
C6_NoLoginChallengeNoChallengeError ==
    [][(LoginCalled /\ ~HasLoginChallenge(challenge_storage, ret'.address))
          => (ret'.message = NoChallengeMsg /\ pending' = pending)]_vars

\* C7: issuing a login challenge for an address and consuming one leave its
\* stored social-binding challenge present and unchanged, so that a
\* verify_twitter_signature against a post with the matching text still succeeds.
LoginMessageIssued ==
    /\ ret'.op = "get_trustgo_login_message"
    /\ ret'.status = "success"
    /\ get_trustgo_login_message(ret'.address)

C7_LoginFlowKeepsSocialChallenge ==
    [][(/\ LoginMessageIssued \/ (LoginCalled /\ ret'.status = "awaiting")
        /\ HasTwitterChallenge(challenge_storage, ret'.address))
          => /\ HasTwitterChallenge(challenge_storage', ret'.address)
             /\ challenge_storage'[ret'.address].twitter
                    = challenge_storage[ret'.address].twitter
             /\ \A n \in ScreenNames :
                    TwitterChecks(challenge_storage', ret'.address,
                                  [kind |-> "response",
                                   text |-> challenge_storage[ret'.address].twitter[1].message,
                                   author |-> <<n>>]) = TwitterOkMsg]_vars

\* C8: login_twitter for an address overwrites its social slot only: a login
\* challenge that is outstanding keeps its message and expected_answer, and
\* trustgo_login with them still passes the local checks.
TwitterMessageIssued ==
    /\ ret'.op = "login_twitter"
    /\ login_twitter(ret'.address)

C8_LoginTwitterKeepsLoginChallenge ==
    [][(TwitterMessageIssued /\ HasLoginChallenge(challenge_storage, ret'.address)) =>
          LET a == ret'.address
              stored == challenge_storage[a].login[1]
          IN  /\ HasLoginChallenge(challenge_storage', a)
              /\ challenge_storage'[a].login = challenge_storage[a].login
              /\ challenge_storage'[a].twitter[1].message = ret'.message
              /\ LoginChecks(challenge_storage', a, stored.message, stored.expected_answer)
                     = PassedMsg]_vars

\* a social-binding challenge has been generated next to an outstanding login challenge
C8_Witness ==
    /\ ret.op = "login_twitter"
    /\ HasLoginChallenge(challenge_storage, ret.address)
    /\ HasTwitterChallenge(challenge_storage, ret.address)
    /\ challenge_storage[ret.address].twitter[1].message = ret.message

\* C9: query_ranked_bubbles for a resolved address that has no stored token,
\* or with no address resolvable, returns the 'please login' error for every
\* bubble_type, valid or not, and dispatches no upstream call.
RankedBubblesCalled ==
    /\ ret'.op = "query_ranked_bubbles"
    /\ \E address \in AddressArgs : query_ranked_bubbles(ret'.args[1], address)

C9_QueryWithoutTokenRefused ==
    [][(/\ RankedBubblesCalled
        /\ ret'.address = NoAddress \/ ret'.address \notin DOMAIN auth_tokens)
          => /\ ret'.status = "error"
             /\ ret'.message = PleaseLoginMsg
             /\ pending' = pending]_vars

\* an invalid tag has been answered with 'please login'
C9_Witness ==
    /\ ret.op = "query_ranked_bubbles"
    /\ ret.message = PleaseLoginMsg
    /\ ret.args[1] \notin BubbleTypes
    /\ ret.address \notin DOMAIN auth_tokens

\* C10: with a token stored for the resolved address, a bubble_type outside
\* {price, sigma_score, mindshare} returns the invalid-type error and
\* dispatches nothing; a ranked-bubbles request is dispatched only with the
\* token stored for the resolved address and one of the three tags.
C10_InvalidTagRefused ==
    [][/\ (/\ RankedBubblesCalled
           /\ ret'.address \in DOMAIN auth_tokens
           /\ ret'.args[1] \notin BubbleTypes)
             => /\ ret'.status = "error"
                /\ ret'.message = InvalidTypeMsg
                /\ pending' = pending
       /\ \A frame \in Dispatched :
             frame.api = "ranked_bubbles"
                => /\ frame.address \in DOMAIN auth_tokens
                   /\ auth_tokens[frame.address].trustgo_token # NoToken
                   /\ frame.tag \in BubbleTypes]_vars

\* an address that holds a token has been refused an invalid tag
C10_Witness ==
    /\ ret.op = "query_ranked_bubbles"
    /\ ret.message = InvalidTypeMsg
    /\ ret.address \in DOMAIN auth_tokens
    /\ ret.args[1] \notin BubbleTypes

\* the tools that forward a session token to the upstream, by the request they make
TokenApis == {"ranked_bubbles", "attest_calldata"}

\* C11: whenever a tool call made for address A (query_ranked_bubbles, the two
\* convenience queries, claim_sigma_attestation) dispatches an upstream request
\* that carries a token, A has a stored token and the request carries it: never
\* a token held for another address only.
C11_ForwardedTokenIsTheAddressOwn ==
    [][\A frame \in Dispatched :
          frame.api \in TokenApis
             => /\ frame.address \in DOMAIN auth_tokens
                /\ frame.token = auth_tokens[frame.address].trustgo_token]_vars

\* a step of one of the three query tools
QueryCalled ==
    /\ ret'.op \in {"query_ranked_bubbles", "query_price_bubble_info",
                    "query_sigma_score_bubble_info"}
    /\ \E address \in AddressArgs : Query(ret'.op, ret'.args[1], address)

C13_VerifyIsIdempotent ==
    [][\A frame \in Woken, response \in TweetResponses :
          (/\ verify_twitter_signature_resume(frame, response)
           /\ ret'.status = "success") =>
             LET a == frame.address
                 before == challenge_storage[a].twitter[1]
             IN  /\ HasTwitterChallenge(challenge_storage', a)
                 /\ challenge_storage'[a].twitter[1].message = before.message
                 /\ challenge_storage'[a].twitter[1].number = before.number
                 /\ challenge_storage'[a].twitter[1].user_screen_name = response.author
                 /\ challenge_storage'[a].login = challenge_storage[a].login
                 /\ TwitterChecks(challenge_storage', a, response) = TwitterOkMsg
                 /\ StoreScreenName(challenge_storage', a, response.author[1])
                        = challenge_storage'
                 /\ before.user_screen_name = response.author
                        => challenge_storage' = challenge_storage]_vars

\* a verify_twitter_signature has succeeded and the challenge is still stored,
\* with the screen name of the poster
C13_Witness ==
    /\ ret.op = "verify_twitter_signature"
    /\ ret.status = "success"
    /\ HasTwitterChallenge(challenge_storage, ret.address)
    /\ challenge_storage[ret.address].twitter[1].user_screen_name = ret.data
    /\ ret.data # <<>>

\* C14: verify_twitter_signature succeeds, and records the poster's handle,
\* only when the text of the looked-up post is the stored social message of
\* the address; when the texts differ it returns the verification-failed
\* error and leaves the challenge store, a screen name recorded before
\* included, as it was.
C14_VerifyNeedsExactText ==
    [][\A frame \in Woken, response \in TweetResponses :
          verify_twitter_signature_resume(frame, response) =>
             LET a == frame.address IN
             /\ ret'.status = "success"
                   => /\ HasTwitterChallenge(challenge_storage, a)
                      /\ response.kind = "response"
                      /\ response.text = challenge_storage[a].twitter[1].message
                      /\ challenge_storage'[a].twitter[1].user_screen_name = <<ret'.data[1]>>
             /\ challenge_storage' # challenge_storage => ret'.status = "success"
             /\ (/\ HasTwitterChallenge(challenge_storage, a)
                 /\ response.kind = "response"
                 /\ response.text # challenge_storage[a].twitter[1].message)
                   => /\ ret'.status = "error"
                      /\ ret'.message = TwitterMismatchMsg
                      /\ challenge_storage' = challenge_storage]_vars

\* a post with another text has been refused for an address whose social
\* challenge holds the screen name of an earlier verification
C14_Witness ==
    /\ ret.op = "verify_twitter_signature"
    /\ ret.status = "error"
    /\ ret.message = TwitterMismatchMsg
    /\ HasTwitterChallenge(challenge_storage, ret.address)
    /\ challenge_storage[ret.address].twitter[1].user_screen_name # <<>>

\* a result dictionary: status 'success' or 'error', with a message when 'error'
Structured(result) ==
    /\ result.status \in {"success", "error"}
    /\ result.status = "error" => result.message # ""

\* C15: every step of a tool either suspends the tool at its upstream call or
\* returns a structured result (status 'success' or 'error', a message with
\* 'error'); a step that takes an upstream answer always returns one; and
\* whatever the answer to a call in flight is (success, failure, a raised
\* error, missing fields), the tool's result for it is structured.
C15_ResultsAreStructured ==
    [][/\ (now' = now) => /\ ret'.op # "none"
                          /\ ret'.status = "awaiting" \/ Structured(ret')
       /\ (Woken # {}) => Structured(ret')
       /\ \A frame \in BagToSet(pending') :
             /\ frame.api = "check_signed_message"
                   => \A response \in LoginResponses : Structured(LoginOutcome(frame, response))
             /\ frame.api = "ranked_bubbles"
                   => \A response \in RankedResponses : Structured(QueryOutcome(frame, response))
             /\ frame.api = "attest_calldata"
                   => \A response \in ClaimResponses : Structured(ClaimOutcome(frame, response))
             /\ frame.api = "tweet"
                   => \A response \in TweetResponses :
                         TwitterChecks(challenge_storage', frame.address, response)
                            \in {TwitterOkMsg, TwitterMismatchMsg, SignFailedMsg}]_vars

\* the upstream call of a trustgo_login raised and the tool returned an error result
C15_Witness ==
    /\ ret.op = "trustgo_login"
    /\ ret.status = "error"
    /\ ret.message = LoginExceptionMsg

\* the entry of a dictionary for a key: <<>> without the key
Entry(dict, key) == IF key \in DOMAIN dict THEN <<dict[key]>> ELSE <<>>

\* the dictionary without the entries of the other keys
Own(dict, key) == [k \in DOMAIN dict \cap {key} |-> dict[k]]

\* C16: a step of a tool whose resolved address is A, taken at any point of
\* any interleaving (the step before the upstream call or the one after it),
\* leaves the challenge_storage entry and the auth_tokens entry of every other
\* address as they were; and what it returns is what it would return with the
\* entries of the other addresses absent.
C16_OtherAddressesUntouched ==
    [][(now' = now) =>
          LET a == ret'.address IN
          /\ \A b \in Addresses \ {a} :
                /\ Entry(challenge_storage', b) = Entry(challenge_storage, b)
                /\ Entry(auth_tokens', b) = Entry(auth_tokens, b)
          /\ LoginCalled =>
                /\ LoginChecks(Own(challenge_storage, a), a, ret'.args[2], ret'.args[3])
                      = LoginChecks(challenge_storage, a, ret'.args[2], ret'.args[3])
                /\ ret'.status = "error"
                      => ret'.message = LoginChecks(Own(challenge_storage, a), a,
                                                    ret'.args[2], ret'.args[3])
          /\ QueryCalled =>
                /\ QueryChecks(Own(auth_tokens, a), a, ret'.args[1])
                      = QueryChecks(auth_tokens, a, ret'.args[1])
                /\ ret'.status = "error"
                      => ret'.message = QueryChecks(Own(auth_tokens, a), a, ret'.args[1])
          /\ \A frame \in Woken, response \in TweetResponses :
                verify_twitter_signature_resume(frame, response)
                   => ret'.message = TwitterChecks(Own(challenge_storage, a), a, response)
          /\ \A frame \in Woken, response \in LoginResponses :
                trustgo_login_resume(frame, response)
                   => /\ frame.address = a
                      /\ ret' = LoginOutcome(frame, response)]_vars

\* a login for one address has stored its token while another address keeps
\* the login challenge issued for it
C16_Witness ==
    /\ ret.op = "trustgo_login"
    /\ ret.status = "success"
    /\ ret.address \in DOMAIN auth_tokens
    /\ \E b \in Addresses \ {ret.address} : HasLoginChallenge(challenge_storage, b)

\* Four primes below 46341, pairwise coprime, with a product above 10^16: two
\* naturals below 10^16 with the same remainders for all four are equal, and
\* every product of two remainders stays within 32 bits.
Moduli == {46337, 46327, 46309, 46307}

\* the remainder of the natural written by four digits in base 10000
DigitsMod(number, m) ==
    (((((((number[1] % m) * 10000) + number[2]) % m) * 10000 + number[3]) % m) * 10000
        + number[4]) % m

\* the remainder of (num1 * num2) + (num3 ^ 2) - (num1 mod num3), from the
\* operands a challenge discloses
FormulaMod(operands, m) ==
    ((((operands[1] % m) * (operands[2] % m)) % m)
        + ((operands[3] * operands[3]) - (operands[1] % operands[3]))) % m

\* the number is the value of the formula for the operands
IsAnswerOf(number, operands) ==
    /\ number # NoNumber
    /\ \A i \in 1..4 : number[i] \in 0..9999
    /\ \A m \in Moduli : DigitsMod(number, m) = FormulaMod(operands, m)

\* C17: for every challenge get_trustgo_login_message issues, the stored
\* expected_answer is the value of (num1*num2)+(num3^2)-(num1 mod num3) for
\* the three operands returned to the caller (a value below 2^53, which a JSON
\* number carries exactly), it passes the checks of trustgo_login with the
\* returned message, and a trustgo_login that answers the challenge just
\* returned with the value of the formula passes the local checks.
C17_PuzzleRoundTrip ==
    [][/\ (ret'.op = "get_trustgo_login_message" /\ ret'.status = "success") =>
             LET stored == challenge_storage'[ret'.address].login[1] IN
             /\ IsAnswerOf(stored.expected_answer, ret'.data)
             /\ stored.expected_answer[1] < 9007
             /\ stored.message = ret'.message
             /\ LoginChecks(challenge_storage', ret'.address, ret'.message,
                            stored.expected_answer) = PassedMsg
       /\ (/\ ret.op = "get_trustgo_login_message" /\ ret.status = "success"
           /\ ret'.op = "trustgo_login" /\ Woken = {}
           /\ ret'.address = ret.address
           /\ ret'.args[2] = ret.message)
             => /\ IsAnswerOf(ret'.args[3], ret.data) => ret'.status = "awaiting"
                /\ (ret'.args[3] # NoNumber /\ ~IsAnswerOf(ret'.args[3], ret.data))
                      => ret'.message = IncorrectMsg]_vars

\* the challenge with the smallest num1, the largest num2 and a num3 inside
\* its range has been answered with the value of the formula and the answer
\* has passed the local checks
C17_Witness ==
    /\ ret.op = "trustgo_login"
    /\ ret.status = "awaiting"
    /\ IsAnswerOf(ret.args[3], <<Num12Min, Num12Max, 997>>)

\* C18: a trustgo_login that a local check rejects (no challenge, message
\* mismatch, number missing, number incorrect) leaves challenge_storage and
\* auth_tokens as they were and dispatches nothing, so that a login challenge
\* stored before the call still passes the checks with its message and its
\* expected_answer, also when the rejection disclosed that expected_answer.
C18_RejectedLoginChangesNothing ==
    [][(LoginCalled /\ ret'.status = "error") =>
          LET a == ret'.address IN
          /\ challenge_storage' = challenge_storage
          /\ auth_tokens' = auth_tokens
          /\ pending' = pending
          /\ HasLoginChallenge(challenge_storage, a)
                => LoginChecks(challenge_storage', a,
                               challenge_storage[a].login[1].message,
                               challenge_storage[a].login[1].expected_answer) = PassedMsg
          /\ ret'.message = IncorrectMsg
                => /\ ret'.data[1] = challenge_storage'[a].login[1].expected_answer
                   /\ LoginChecks(challenge_storage', a, ret'.args[2], ret'.data[1])
                         = PassedMsg]_vars

\* a number has been rejected as incorrect, the expected one disclosed, and
\* the challenge is still stored
C18_Witness ==
    /\ ret.op = "trustgo_login"
    /\ ret.message = IncorrectMsg
    /\ HasLoginChallenge(challenge_storage, ret.address)
    /\ ret.data[1] = challenge_storage[ret.address].login[1].expected_answer
    /\ ret.data[2] # ret.data[1]

\* the tag each convenience query fixes
FixedTag(op) == IF op = "query_price_bubble_info" THEN "price" ELSE "sigma_score"

ConvenienceOps == {"query_price_bubble_info", "query_sigma_score_bubble_info"}

\* C19: a step of query_price_bubble_info (query_sigma_score_bubble_info)
\* does what query_ranked_bubbles with bubble_type 'price' ('sigma_score') and
\* the same address does: the same error result when the checks of the facade
\* refuse, else one ranked-bubbles request with that tag and the token stored
\* for the resolved address, never a request without a stored token; and for
\* every upstream answer it returns 'success' exactly when query_ranked_bubbles
\* would, and the same error result otherwise.
C19_ConvenienceQueriesAreTheFacade ==
    [][/\ (QueryCalled /\ ret'.op \in ConvenienceOps) =>
             LET a == ret'.address
                 tag == FixedTag(ret'.op)
                 refusal == QueryChecks(auth_tokens, a, tag)
             IN  /\ ret'.args = <<tag>>
                 /\ refusal # PassedMsg
                       => /\ ret'.status = "error" /\ ret'.message = refusal
                          /\ pending' = pending
                 /\ refusal = PassedMsg
                       => /\ ret'.status = "awaiting"
                          /\ \E frame \in Dispatched :
                                /\ pending' = Suspend(frame)
                                /\ frame.api = "ranked_bubbles"
                                /\ frame.tag = tag
                                /\ frame.address = a
                                /\ frame.token = auth_tokens[a].trustgo_token
       /\ \A frame \in Dispatched :
             frame.op \in ConvenienceOps
                => /\ frame.address \in DOMAIN auth_tokens
                   /\ frame.token = auth_tokens[frame.address].trustgo_token
                   /\ frame.token # NoToken
       /\ \A frame \in Woken, response \in RankedResponses :
             (query_ranked_bubbles_resume(frame, response) /\ frame.op \in ConvenienceOps) =>
                LET facade == QueryOutcome([frame EXCEPT !.op = "query_ranked_bubbles"], response)
                IN  /\ ret'.status = facade.status
                    /\ ret'.message = facade.message]_vars

\* query_price_bubble_info has returned the data of a ranked-bubbles request
\* made with the token of the address
C19_Witness ==
    /\ ret.op = "query_price_bubble_info"
    /\ ret.status = "success"
    /\ ret.address \in DOMAIN auth_tokens

\* C20: the local checks and the deletion of the challenge are one step, so
\* for each login challenge issued at most one check_signed_message request is
\* dispatched, whatever the interleaving: a trustgo_login passes the local
\* checks only when no call has passed them since the challenge of the address
\* was issued, and every other call with the message and number of the call
\* that passed returns the 'no challenge found' error and dispatches nothing.
C20_OneDispatchPerChallenge ==
    [][LoginCalled =>
          LET a == ret'.address IN
          /\ ret'.status = "awaiting"
                => /\ attempt[a] = <<>>
                   /\ \E frame \in Dispatched : pending' = Suspend(frame)
          /\ (/\ attempt[a] # <<>>
              /\ ret'.args[2] = attempt[a][1].message
              /\ ret'.args[3] = attempt[a][1].number)
                => (ret'.message = NoChallengeMsg /\ pending' = pending)]_vars

\* C21: verify_twitter_signature reads challenge_storage only once the lookup
\* of the post has returned and never makes a record: the step up to the
\* lookup leaves challenge_storage as it is and dispatches the lookup whatever
\* is stored; the step after it decides on what is stored then; and when the
\* address has no social challenge then (none was generated, or its record was
\* deleted or replaced during the lookup), the result is an error, no screen
\* name is recorded and challenge_storage is left as it is.
C21_VerifyReadsAfterLookup ==
    [][/\ (ret'.op = "verify_twitter_signature" /\ ret'.status = "awaiting" /\ now' = now)
             => /\ challenge_storage' = challenge_storage
                /\ \E frame \in Dispatched :
                      /\ pending' = Suspend(frame)
                      /\ frame.api = "tweet"
                      /\ frame.address = ret'.address
       /\ \A frame \in Woken, response \in TweetResponses :
             verify_twitter_signature_resume(frame, response) =>
                LET a == frame.address IN
                /\ ret'.message = TwitterChecks(challenge_storage, a, response)
                /\ DOMAIN challenge_storage' = DOMAIN challenge_storage
                /\ ~HasTwitterChallenge(challenge_storage, a)
                      => /\ ret'.status = "error"
                         /\ ret'.message = SignFailedMsg
                         /\ ret'.data = <<>>
                         /\ challenge_storage' = challenge_storage
                         /\ ~HasTwitterChallenge(challenge_storage', a)]_vars

\* a verify_twitter_signature has returned its error for an address whose
\* record holds a login challenge and no social challenge
C21_Witness ==
    /\ ret.op = "verify_twitter_signature"
    /\ ret.status = "error"
    /\ ret.message = SignFailedMsg
    /\ HasLoginChallenge(challenge_storage, ret.address)
    /\ ~HasTwitterChallenge(challenge_storage, ret.address)

====
